---- MODULE Spec2Model ----
(***************************************************************************)
(* The find-match edge function (supabase/functions/find-match/index.ts)   *)
(* running as concurrent, stateless invocations against the profiles and   *)
(* matches tables of the database schema.  One action per storage round    *)
(* trip of the handler; the local computation that follows a round trip    *)
(* (up to the next await or the returned Response) belongs to its action.  *)
(* Three parts of the browser application follow, each under its own       *)
(* specification: the useNotifications hook, the AuthProvider and the       *)
(* reactions of the ChatPage.                                               *)
(***************************************************************************)
EXTENDS Integers, FiniteSets, Sequences, TLC

\* ---------------------------------------------------------------- bounds
NumUsers == 3          \* identities known to the identity service
MaxInv   == 2          \* RequestMatch invocations, numbered in arrival order
MaxCalls == 2          \* updateAuthState calls of one AuthProvider
MaxNotifications   == 3   \* length of the notifications list
NumNotificationIds == 2   \* distinct values of Notification.id
MaxUnread          == 4   \* unreadCount above which nothing is added
MaxMessages   == 2        \* length of the messages list
NumMessageIds == 2        \* distinct values of Message.id
MaxVotes      == 1        \* votes of each kind a message starts with

Users == 1..NumUsers
Invs  == 1..MaxInv

NULL == 0              \* SQL NULL / "no value yet" (no identity is 0)

VARIABLES
    profiles,      \* ids that have a row in public.profiles
    is_active,     \* profiles.is_active, per row
    is_searching,  \* profiles.is_searching, per row
    matches,       \* rows of public.matches
    inv,           \* per invocation: the request, position in the handler, its
                   \* locals, the storage operations it has issued (ops), and
                   \* history while in flight (alone: no other invocation in
                   \* flight since it arrived; cleared: another invocation's
                   \* step 6 reset its caller's flag since its step 1; sole: its
                   \* lookup ran alone with one qualifying row, not yet paired
                   \* with the caller)
    episodeBase,   \* history: per profile, rows naming it when it last announced
    notifications, \* useNotifications: the list, newest first, of [id, read]
    unreadCount,   \* useNotifications: the counter shown on the badge
    session,       \* AuthProvider: identity of the session, or NULL
    user,          \* AuthProvider: identity of session.user, or NULL
    profile,       \* AuthProvider: id of the profiles row held, or NULL
    calls,         \* AuthProvider: updateAuthState calls and where each awaits
    messages       \* ChatPage: the list of [id, upvotes, downvotes, userReaction]

\* the React state of the browser application
browser == <<notifications, unreadCount, session, user, profile, calls, messages>>

vars == <<profiles, is_active, is_searching, matches, inv, episodeBase, browser>>

\* ------------------------------------------------------------- responses
corsHeaders == "Access-Control-Allow-Origin: *"

NoResponse == [code |-> 0, body |-> "none", userId |-> NULL, matchId |-> NULL,
               matchedUser |-> NULL, details |-> "", headers |-> ""]

\* a response built without the headers of lines 4-7
Response_no_cors(code, body) == [NoResponse EXCEPT !.code = code, !.body = body]

Response(code, body) == [NoResponse EXCEPT !.code = code, !.body = body,
                                           !.headers = corsHeaders]

\* locals of one invocation before the request arrives
NoOps == [step1 |-> 0, step2 |-> 0, step5 |-> 0, step6 |-> 0]

IdleInv == [pc |-> "idle", request |-> "none", userId |-> NULL, matchedUser |-> NULL,
            updateError |-> FALSE, searchError |-> FALSE,
            matchError |-> "none", updateUsersError |-> FALSE,
            newMatch |-> NULL, resp |-> NoResponse, ops |-> NoOps,
            alone |-> TRUE, cleared |-> FALSE, sole |-> FALSE]

\* the invocation returns its Response; of its history only "ran alone through
\* to the response with a sole candidate" is kept
Finish(r, response) ==
    [r EXCEPT !.pc = "done", !.resp = response,
              !.sole = r.sole /\ r.alone, !.alone = TRUE, !.cleared = FALSE]

\* ------------------------------------------------------------ the tables
MatchesOf(p) == {m \in matches : m.profile1_id = p \/ m.profile2_id = p}

PairRows(a, b) == {m \in matches : {m.profile1_id, m.profile2_id} = {a, b}}

\* the trigger with its comparison inverted and a working swap
create_mutual_match_inverted(p1, p2) ==
    IF p1 < p2 THEN <<p2, p1>> ELSE <<p1, p2>>

\* BEFORE INSERT trigger ensure_mutual_match: when profile1_id > profile2_id
\* both columns are assigned from OLD, which is NULL on INSERT.
create_mutual_match(p1, p2) ==
    IF p1 > p2 THEN <<NULL, NULL>> ELSE <<p1, p2>>

\* the table without its UNIQUE constraint
UniqueViolation_dropped(p1, p2) == FALSE

\* UNIQUE(profile1_id, profile2_id)
UniqueViolation(p1, p2) ==
    \E m \in matches : m.profile1_id = p1 /\ m.profile2_id = p2

\* the constraints without REFERENCES public.profiles(id)
InsertError_no_foreign_key(p1, p2) ==
    LET new == create_mutual_match(p1, p2) IN
    IF new[1] = NULL \/ new[2] = NULL THEN "not_null"
    ELSE IF new[1] = new[2] THEN "check"
    ELSE IF UniqueViolation(new[1], new[2]) THEN "unique"
    ELSE "none"

\* the constraint, if any, that rejects INSERT INTO matches (p1, p2, 'matched')
InsertError(p1, p2) ==
    LET new == create_mutual_match(p1, p2) IN
    IF new[1] = NULL \/ new[2] = NULL THEN "not_null"
    ELSE IF new[1] \notin profiles \/ new[2] \notin profiles THEN "foreign_key"
    ELSE IF new[1] = new[2] THEN "check"
    ELSE IF UniqueViolation(new[1], new[2]) THEN "unique"
    ELSE "none"

\* the row stored when the insert names no status: DEFAULT 'pending'
NewRow_default_status(p1, p2) ==
    LET new == create_mutual_match(p1, p2) IN
    [id |-> Cardinality(matches) + 1, profile1_id |-> new[1],
     profile2_id |-> new[2], status |-> "pending"]

\* the stored row; id stands for uuid_generate_v4()
NewRow(p1, p2) ==
    LET new == create_mutual_match(p1, p2) IN
    [id |-> Cardinality(matches) + 1, profile1_id |-> new[1],
     profile2_id |-> new[2], status |-> "matched"]

\* ------------------------------------------------------------ the handler
\* the filter without .neq('id', userId)
Candidates_with_self(u) ==
    {p \in profiles : is_searching[p] /\ is_active[p]}

\* the filter without .eq('is_active', true)
Candidates_any_activity(u) ==
    {p \in profiles : is_searching[p] /\ p # u}

\* the filter with .eq('is_searching', false)
Candidates_not_searching(u) ==
    {p \in profiles : ~is_searching[p] /\ is_active[p] /\ p # u}

\* Step 2 filter: is_searching = true, is_active = true, id <> userId
Candidates(u) ==
    {p \in profiles : is_searching[p] /\ is_active[p] /\ p # u}

\* profile1Id with its comparison inverted
profile1Id_inverted(userId, matchedId) == IF userId > matchedId THEN userId ELSE matchedId

\* canonical ordering, smaller id first
profile1Id(userId, matchedId) == IF userId < matchedId THEN userId ELSE matchedId
profile2Id(userId, matchedId) == IF userId < matchedId THEN matchedId ELSE userId

\* the step-6 filter naming the caller only
Step6Rows_caller_only(userId, matchedId) == {userId} \cap profiles

\* the step-6 filter naming the candidate only
Step6Rows_candidate_only(userId, matchedId) == {matchedId} \cap profiles

\* ids named by .in('id', [userId, matchedUser.id]) that have a row
Step6Rows(userId, matchedId) == {userId, matchedId} \cap profiles

Running(i) == inv[i].pc \notin {"idle", "done"}

\* any other invocation in flight ends the "alone" run of those in flight
NoLongerAlone(f, i) ==
    [j \in Invs |-> IF j # i /\ f[j].pc \notin {"idle", "done"}
                    THEN [f[j] EXCEPT !.alone = FALSE] ELSE f[j]]

\* the handler's variables
server == <<profiles, is_active, is_searching, matches, inv, episodeBase>>

\* updateAuthState calls, numbered in the order they are made
Calls == 1..MaxCalls

\* a call not made yet
IdleCall == [pc |-> "idle", sessionUser |-> NULL, userProfile |-> NULL]

\* the browser application as mounted: the initial values of its useState hooks
BrowserInit ==
    /\ notifications = <<>>
    /\ unreadCount = 0
    /\ session = NULL
    /\ user = NULL
    /\ profile = NULL
    /\ calls = [c \in Calls |-> IdleCall]
    /\ messages = <<>>

\* the database with no row, no invocation arrived
ServerInit ==
    /\ profiles = {}
    /\ is_active = <<>>
    /\ is_searching = <<>>
    /\ matches = {}
    /\ inv = [i \in Invs |-> IdleInv]
    /\ episodeBase = <<>>

Init ==
    /\ BrowserInit
    /\ profiles \in SUBSET Users
    /\ is_active \in [profiles -> BOOLEAN]
    /\ is_searching = [p \in profiles |-> FALSE]
    /\ matches = {}
    /\ inv = [i \in Invs |-> IdleInv]
    /\ episodeBase = [p \in profiles |-> 0]

\* the tables as earlier invocations can have left them before any Match row
\* exists: step 1 sets is_searching on any profile, and a later failure or a
\* Searching outcome leaves it set
InitSearching ==
    /\ BrowserInit
    /\ profiles \in SUBSET Users
    /\ is_active \in [profiles -> BOOLEAN]
    /\ is_searching \in [profiles -> BOOLEAN]
    /\ matches = {}
    /\ inv = [i \in Invs |-> IdleInv]
    /\ episodeBase = [p \in profiles |-> 0]

\* OPTIONS preflight: answered before anything else
Preflight(i) ==
    /\ inv[i].pc = "idle"
    /\ \A j \in Invs : j < i => inv[j].pc # "idle"
    /\ inv' = [inv EXCEPT ![i] = Finish([inv[i] EXCEPT !.request = "OPTIONS"],
                                        Response(200, "ok"))]
    /\ UNCHANGED <<profiles, is_active, is_searching, matches, episodeBase, browser>>

\* catch block: 500 with error.message as details
InternalError(message) ==
    [Response(500, "Internal server error") EXCEPT !.details = message]

\* the TypeError of line 125 leaving the handler: no response is produced
MissingHeader_escapes(i) ==
    /\ inv[i].pc = "idle"
    /\ \A j \in Invs : j < i => inv[j].pc # "idle"
    /\ inv' = [inv EXCEPT ![i] = Finish([inv[i] EXCEPT !.request = "POST no header"],
                                        NoResponse)]
    /\ UNCHANGED <<profiles, is_active, is_searching, matches, episodeBase, browser>>

\* POST without an Authorization header: authHeader.replace throws, the catch
\* block answers 500 with the fault's message as details
MissingHeader(i) ==
    /\ inv[i].pc = "idle"
    /\ \A j \in Invs : j < i => inv[j].pc # "idle"
    /\ inv' = [inv EXCEPT ![i] = Finish([inv[i] EXCEPT !.request = "POST no header"],
                                        InternalError("TypeError"))]
    /\ UNCHANGED <<profiles, is_active, is_searching, matches, episodeBase, browser>>

\* the handler announcing the search of the token's claimed subject before the
\* token is verified
Unauthorized_writes(i) ==
    /\ inv[i].pc = "idle"
    /\ \A j \in Invs : j < i => inv[j].pc # "idle"
    /\ \E u \in profiles :
          is_searching' = [p \in profiles |-> IF p = u THEN TRUE ELSE is_searching[p]]
    /\ inv' = [inv EXCEPT ![i] = Finish([inv[i] EXCEPT !.request = "POST bad token"],
                                        Response(401, "Unauthorized"))]
    /\ UNCHANGED <<profiles, is_active, matches, episodeBase, browser>>

\* POST whose token auth.getUser rejects
Unauthorized(i) ==
    /\ inv[i].pc = "idle"
    /\ \A j \in Invs : j < i => inv[j].pc # "idle"
    /\ inv' = [inv EXCEPT ![i] = Finish([inv[i] EXCEPT !.request = "POST bad token"],
                                        Response(401, "Unauthorized"))]
    /\ UNCHANGED <<profiles, is_active, is_searching, matches, episodeBase, browser>>

\* POST whose token names user u
Authenticate(i, u) ==
    /\ inv[i].pc = "idle"
    /\ \A j \in Invs : j < i => inv[j].pc # "idle"
    /\ inv' = [NoLongerAlone(inv, i) EXCEPT
                  ![i].pc = "step1", ![i].request = "POST token", ![i].userId = u,
                  ![i].alone = \A j \in Invs : j # i => ~Running(j)]
    /\ UNCHANGED <<profiles, is_active, is_searching, matches, episodeBase, browser>>

\* the step-1 write without .eq('id', userId)
Step1Write_every_row(u) == [p \in profiles |-> TRUE]

\* the step-1 write with the wrong value
Step1Write_false(u) == [p \in profiles |-> IF p = u THEN FALSE ELSE is_searching[p]]

\* Step 1 write: UPDATE profiles SET is_searching = true WHERE id = userId
Step1Write(u) == [p \in profiles |-> IF p = u THEN TRUE ELSE is_searching[p]]

Step1(i) ==
    /\ inv[i].pc = "step1"
    /\ LET u == inv[i].userId IN
       /\ is_searching' = Step1Write(u)
       /\ episodeBase' = [p \in profiles |->
                            IF p = u THEN Cardinality(MatchesOf(u)) ELSE episodeBase[p]]
       /\ inv' = [inv EXCEPT ![i].pc = "step2", ![i].cleared = FALSE,
                             ![i].ops.step1 = @ + 1]
    /\ UNCHANGED <<profiles, is_active, matches, browser>>

\* the updateError branch without its return
Step1Fails_continues(i) ==
    /\ inv[i].pc = "step1"
    /\ inv' = [inv EXCEPT ![i].pc = "step2", ![i].updateError = TRUE,
                          ![i].ops.step1 = @ + 1]
    /\ UNCHANGED <<profiles, is_active, is_searching, matches, episodeBase, browser>>

\* Step 1: the write fails
Step1Fails(i) ==
    /\ inv[i].pc = "step1"
    /\ inv' = [inv EXCEPT ![i] = Finish([inv[i] EXCEPT !.updateError = TRUE,
                                                         !.ops.step1 = @ + 1],
                                        Response(500, "Failed to update search status"))]
    /\ UNCHANGED <<profiles, is_active, is_searching, matches, episodeBase, browser>>

\* Steps 2-3: the lookup returns no row
Step2None(i) ==
    /\ inv[i].pc = "step2"
    /\ Candidates(inv[i].userId) = {}
    /\ inv' = [inv EXCEPT ![i] = Finish([inv[i] EXCEPT !.ops.step2 = @ + 1],
                                        [Response(200, "searching")
                                         EXCEPT !.userId = inv[i].userId])]
    /\ UNCHANGED <<profiles, is_active, is_searching, matches, episodeBase, browser>>

\* Steps 2, 4: the lookup returns one row, any of those that qualify
Step2Found(i, c) ==
    /\ inv[i].pc = "step2"
    /\ c \in Candidates(inv[i].userId)
    /\ inv' = [inv EXCEPT ![i].pc = "step5", ![i].matchedUser = c,
                          ![i].ops.step2 = @ + 1,
                          ![i].sole = /\ inv[i].alone
                                      /\ inv[i].userId \in profiles
                                      /\ Candidates(inv[i].userId) = {c}
                                      /\ PairRows(inv[i].userId, c) = {}]
    /\ UNCHANGED <<profiles, is_active, is_searching, matches, episodeBase, browser>>

\* the searchError branch without its return: the empty result is answered
Step2Fails_answers_searching(i) ==
    /\ inv[i].pc = "step2"
    /\ inv' = [inv EXCEPT ![i] = Finish([inv[i] EXCEPT !.searchError = TRUE,
                                                         !.ops.step2 = @ + 1],
                                        [Response(200, "searching")
                                         EXCEPT !.userId = inv[i].userId])]
    /\ UNCHANGED <<profiles, is_active, is_searching, matches, episodeBase, browser>>

Step2Fails(i) ==
    /\ inv[i].pc = "step2"
    /\ inv' = [inv EXCEPT ![i] = Finish([inv[i] EXCEPT !.searchError = TRUE,
                                                         !.ops.step2 = @ + 1],
                                        Response(500, "Failed to search for matches"))]
    /\ UNCHANGED <<profiles, is_active, is_searching, matches, episodeBase, browser>>

\* Step 5: INSERT INTO matches, accepted by every constraint
Step5(i) ==
    /\ inv[i].pc = "step5"
    /\ LET p1 == profile1Id(inv[i].userId, inv[i].matchedUser)
           p2 == profile2Id(inv[i].userId, inv[i].matchedUser) IN
       /\ InsertError(p1, p2) = "none"
       /\ matches' = matches \cup {NewRow(p1, p2)}
       /\ inv' = [inv EXCEPT ![i].pc = "step6", ![i].newMatch = NewRow(p1, p2).id,
                             ![i].cleared = FALSE, ![i].ops.step5 = @ + 1]
    /\ UNCHANGED <<profiles, is_active, is_searching, episodeBase, browser>>

\* the matchError branch undoing step 1 before it returns
Step5Rejected_resets(i) ==
    /\ inv[i].pc = "step5"
    /\ LET p1 == profile1Id(inv[i].userId, inv[i].matchedUser)
           p2 == profile2Id(inv[i].userId, inv[i].matchedUser) IN
       /\ InsertError(p1, p2) # "none"
       /\ inv' = [inv EXCEPT ![i] = Finish([inv[i] EXCEPT !.matchError = InsertError(p1, p2),
                                                            !.ops.step5 = @ + 1],
                                           Response(500, "Failed to create match"))]
    /\ is_searching' = [p \in profiles |-> IF p = inv[i].userId THEN FALSE
                                            ELSE is_searching[p]]
    /\ UNCHANGED <<profiles, is_active, matches, episodeBase, browser>>

\* the matchError branch without its return: the handler goes on to step 6
Step5Rejected_continues(i) ==
    /\ inv[i].pc = "step5"
    /\ LET p1 == profile1Id(inv[i].userId, inv[i].matchedUser)
           p2 == profile2Id(inv[i].userId, inv[i].matchedUser) IN
       /\ InsertError(p1, p2) # "none"
       /\ inv' = [inv EXCEPT ![i] = [inv[i] EXCEPT !.matchError = InsertError(p1, p2),
                                                     !.ops.step5 = @ + 1,
                                                     !.pc = "step6"]]
    /\ UNCHANGED <<profiles, is_active, is_searching, matches, episodeBase, browser>>

\* Step 5: the insert is rejected by a constraint
Step5Rejected(i) ==
    /\ inv[i].pc = "step5"
    /\ LET p1 == profile1Id(inv[i].userId, inv[i].matchedUser)
           p2 == profile2Id(inv[i].userId, inv[i].matchedUser) IN
       /\ InsertError(p1, p2) # "none"
       /\ inv' = [inv EXCEPT ![i] = Finish([inv[i] EXCEPT !.matchError = InsertError(p1, p2),
                                                            !.ops.step5 = @ + 1],
                                           Response(500, "Failed to create match"))]
    /\ UNCHANGED <<profiles, is_active, is_searching, matches, episodeBase, browser>>

\* Step 5: the insert fails in the storage engine for any other reason
Step5Fails(i) ==
    /\ inv[i].pc = "step5"
    /\ inv' = [inv EXCEPT ![i] = Finish([inv[i] EXCEPT !.matchError = "storage",
                                                         !.ops.step5 = @ + 1],
                                        Response(500, "Failed to create match"))]
    /\ UNCHANGED <<profiles, is_active, is_searching, matches, episodeBase, browser>>

\* the response naming the caller where the candidate belongs
MatchedResponse_names_caller(r) ==
    [Response(200, "matched") EXCEPT !.matchId = r.newMatch,
                                     !.matchedUser = r.userId]

MatchedResponse(r) ==
    [Response(200, "matched") EXCEPT !.matchId = r.newMatch,
                                     !.matchedUser = r.matchedUser]

\* invocations, other than i, whose caller's flag this write clears
ClearedBy(f, i, rows) ==
    [j \in Invs |-> IF j # i /\ f[j].userId \in rows /\ f[j].pc \in {"step2", "step5"}
                    THEN [f[j] EXCEPT !.cleared = TRUE] ELSE f[j]]

\* Steps 6-7: UPDATE profiles SET is_searching = false WHERE id IN (...); respond
Step6(i) ==
    /\ inv[i].pc = "step6"
    /\ LET rows == Step6Rows(inv[i].userId, inv[i].matchedUser) IN
       /\ is_searching' = [p \in profiles |-> IF p \in rows THEN FALSE ELSE is_searching[p]]
       /\ inv' = [ClearedBy(inv, i, rows) EXCEPT
                     ![i] = Finish([inv[i] EXCEPT !.ops.step6 = @ + 1],
                                   MatchedResponse(inv[i]))]
    /\ UNCHANGED <<profiles, is_active, matches, episodeBase, browser>>

\* the failed step-6 write reported to the caller
Step6Fails_returns_error(i) ==
    /\ inv[i].pc = "step6"
    /\ inv' = [inv EXCEPT ![i] = Finish([inv[i] EXCEPT !.updateUsersError = TRUE,
                                                         !.ops.step6 = @ + 1],
                                        Response(500, "Failed to update search status"))]
    /\ UNCHANGED <<profiles, is_active, is_searching, matches, episodeBase, browser>>

\* Steps 6-7: the write fails; the error is logged and the response is the same
Step6Fails(i) ==
    /\ inv[i].pc = "step6"
    /\ inv' = [inv EXCEPT ![i] = Finish([inv[i] EXCEPT !.updateUsersError = TRUE,
                                                         !.ops.step6 = @ + 1],
                                        MatchedResponse(inv[i]))]
    /\ UNCHANGED <<profiles, is_active, is_searching, matches, episodeBase, browser>>

Next ==
    \E i \in Invs :
        \/ Preflight(i)
        \/ MissingHeader(i)
        \/ Unauthorized(i)
        \/ \E u \in Users : Authenticate(i, u)
        \/ Step1(i)
        \/ Step1Fails(i)
        \/ Step2None(i)
        \/ \E c \in Users : Step2Found(i, c)
        \/ Step2Fails(i)
        \/ Step5(i)
        \/ Step5Rejected(i)
        \/ Step5Fails(i)
        \/ Step6(i)
        \/ Step6Fails(i)

Spec == Init /\ [][Next]_vars

\* the same invocations against tables that earlier invocations have used
SpecSearching == InitSearching /\ [][Next]_vars

\* the runtime runs every continuation whose awaited call has returned
SpecLive == Spec /\ WF_vars(Next)

\* ------------------------------------------------------------ properties
Min(a, b) == IF a < b THEN a ELSE b
Max(a, b) == IF a < b THEN b ELSE a

Inserted(i) == inv[i].newMatch # NULL

\* C1 (P3, uniqueness): for every pair of profiles there is at most one Match
\* row whose parties are that pair, in every reachable state.
P3_Uniqueness ==
    \A a \in Users : \A b \in Users : Cardinality(PairRows(a, b)) <= 1

\* a second insert for an already matched pair was attempted and rejected
P3_Witness ==
    \E i \in Invs :
        /\ inv[i].pc = "done"
        /\ inv[i].matchError = "unique"
        /\ Cardinality(PairRows(inv[i].userId, inv[i].matchedUser)) = 1

\* C2 (P2, canonical ordering): every stored Match row has profile1_id below
\* profile2_id, and the row an invocation inserted holds the smaller of caller
\* and candidate as profile1_id and the larger as profile2_id.
P2_CanonicalOrdering ==
    /\ \A m \in matches : m.profile1_id < m.profile2_id
    /\ \A i \in Invs : Inserted(i) =>
          \E m \in matches :
              /\ m.id = inv[i].newMatch
              /\ m.profile1_id = Min(inv[i].userId, inv[i].matchedUser)
              /\ m.profile2_id = Max(inv[i].userId, inv[i].matchedUser)

\* a row stored by a caller above its candidate in the identity ordering
P2_Witness ==
    \E i \in Invs : \E m \in matches :
        /\ Inserted(i) /\ m.id = inv[i].newMatch
        /\ inv[i].userId > inv[i].matchedUser
        /\ m.profile1_id = inv[i].matchedUser /\ m.profile2_id = inv[i].userId

\* C3 (P1, no self-match): no Match row pairs a profile with itself and no
\* invocation holds its own caller as candidate.
P1_NoSelfMatch ==
    /\ \A m \in matches : m.profile1_id # m.profile2_id
    /\ \A i \in Invs : inv[i].matchedUser # NULL => inv[i].matchedUser # inv[i].userId

\* a caller whose flag was left true by an earlier call of its own has run the
\* lookup again, with its own row the only searching one, and was not selected
P1_Witness ==
    \E i \in Invs : \E j \in Invs :
        /\ j < i
        /\ inv[j].userId = inv[i].userId
        /\ inv[j].pc = "done" /\ inv[j].resp.body = "searching"
        /\ inv[i].pc = "done" /\ inv[i].resp.body = "searching"
        /\ inv[i].matchedUser = NULL
        /\ inv[i].userId \in profiles
        /\ is_active[inv[i].userId] /\ is_searching[inv[i].userId]
\* no storage operation of invocation i failed for a reason other than a
\* constraint of the matches table
NoStorageFault(i) ==
    /\ inv[i].matchError # "storage"
    /\ ~inv[i].updateUsersError
    /\ inv[i].resp.body \notin {"Failed to update search status",
                                "Failed to search for matches"}

\* invocations 1 and 2 are the only ones that arrived, both are finished, their
\* callers differ and each selected the other's caller as candidate
ScenarioC(i, j) ==
    /\ i # j
    /\ \A k \in Invs \ {i, j} : inv[k].pc = "idle"
    /\ inv[i].pc = "done" /\ inv[j].pc = "done"
    /\ inv[i].userId # inv[j].userId
    /\ inv[i].matchedUser = inv[j].userId
    /\ inv[j].matchedUser = inv[i].userId
    /\ NoStorageFault(i) /\ NoStorageFault(j)

\* i won the race and j lost it
WonAgainst(i, j) ==
    /\ inv[i].resp.code = 200 /\ inv[i].resp.body = "matched"
    /\ inv[j].resp.code = 500 /\ inv[j].resp.body = "Failed to create match"
    /\ inv[j].matchError = "unique"
    /\ ~Inserted(j)

Raced(i, j) ==
    /\ i # j
    /\ inv[i].pc \in {"step5", "step6"} /\ inv[j].pc \in {"step5", "step6"}
    /\ inv[i].userId # inv[j].userId
    /\ inv[i].matchedUser = inv[j].matchedUser

\* C5: of two concurrent callers that selected the same third party, at most one
\* has its insert accepted, so the third party is in at most one of their rows.
SameCandidateRace_OneInsert ==
    \A i \in Invs : \A j \in Invs :
        Raced(i, j) => ~(Inserted(i) /\ Inserted(j))

\* C6 (pair exactly once): the rows naming a profile grow by at most one between
\* two consecutive announcements of that profile, when no step-6 write failed.
PairExactlyOnce ==
    (\A i \in Invs : ~inv[i].updateUsersError) =>
        \A p \in profiles : Cardinality(MatchesOf(p)) <= episodeBase[p] + 1

LookupFoundNone(i) ==
    /\ inv[i].pc = "step2"
    /\ inv[i].userId \in profiles
    /\ Candidates(inv[i].userId) = {}
    /\ inv'[i].pc # "step2"
    /\ inv'[i].resp.body # "Failed to search for matches"

SearchingAnswer(i) ==
    /\ inv'[i].pc = "done"
    /\ inv'[i].resp.code = 200
    /\ inv'[i].resp.body = "searching"
    /\ inv'[i].resp.userId = inv[i].userId
    /\ matches' = matches
    /\ ~Inserted(i)

\* C9 (Scenario A) as stated: with no other active and searching profile at
\* lookup time the answer is 200 searching with the caller's id, no Match row
\* is created, and the caller's is_searching is true afterward.
ScenarioA_StillSearching ==
    [][\A i \in Invs :
          LookupFoundNone(i) =>
              SearchingAnswer(i) /\ is_searching'[inv[i].userId]]_vars

\* C9 amended: the same answer and no Match row; the caller's is_searching is
\* true afterward unless the step-6 write of another invocation that paired the
\* caller has reset it since the caller's step 1.
ScenarioA_SearchingUnlessCleared ==
    [][\A i \in Invs :
          LookupFoundNone(i) =>
              /\ SearchingAnswer(i)
              /\ is_searching'[inv[i].userId] \/ inv[i].cleared]_vars

\* answered searching with the flag still set, another profile searching but
\* not active
ScenarioA_Witness ==
    \E i \in Invs :
        /\ inv[i].pc = "done" /\ inv[i].resp.body = "searching"
        /\ inv[i].userId \in profiles
        /\ is_searching[inv[i].userId]
        /\ \E p \in profiles \ {inv[i].userId} : is_searching[p] /\ ~is_active[p]

\* no invocation arrived after i
Last(i) == \A j \in Invs : j > i => inv[j].pc = "idle"

\* invocation i ran alone from arrival to response, met no storage failure, and
\* its lookup saw exactly one qualifying profile, not yet paired with the caller
ScenarioB(i) ==
    /\ inv[i].pc = "done"
    /\ inv[i].sole
    /\ Last(i)
    /\ NoStorageFault(i)

\* C10 (Scenario B): such an invocation answers matched, the pair has exactly
\* one Match row, the new one, in canonical order with status matched, and both
\* profiles' is_searching are false afterwards.
ScenarioB_Matched ==
    \A i \in Invs :
        ScenarioB(i) =>
            LET u == inv[i].userId
                c == inv[i].matchedUser IN
            /\ inv[i].resp.code = 200 /\ inv[i].resp.body = "matched"
            /\ inv[i].resp.matchedUser = c
            /\ PairRows(u, c) = {[id |-> inv[i].resp.matchId,
                                  profile1_id |-> Min(u, c),
                                  profile2_id |-> Max(u, c),
                                  status |-> "matched"]}
            /\ inv[i].resp.matchId = inv[i].newMatch
            /\ ~is_searching[u] /\ ~is_searching[c]

\* Scenario B with the caller above the candidate in the identity ordering,
\* after earlier invocations
ScenarioB_Witness ==
    \E i \in Invs :
        /\ ScenarioB(i)
        /\ i > 1
        /\ inv[i].userId > inv[i].matchedUser
        /\ inv[i].resp.body = "matched"
\* ------------------------------------------------- requests and responses
Tables == <<profiles, is_active, is_searching, matches>>

\* C11 (Scenario D): a POST that carries no Authorization header is answered
\* with 401.
ScenarioD_MissingCredential401 ==
    \A i \in Invs :
        inv[i].pc = "done" /\ inv[i].request = "POST no header"
            => inv[i].resp.code = 401

Unauthenticated(r) == r.request \in {"POST no header", "POST bad token"}

\* C12: an invocation whose caller cannot be authenticated (no credential, or
\* one the identity service rejects) issues no storage operation, and the step
\* that answers it leaves Profiles and Matches unchanged; it takes no other step.
UnauthenticatedNoWrite ==
    [][\A i \in Invs :
          (Unauthenticated(inv'[i]) /\ inv'[i] # inv[i])
          => /\ inv[i].pc = "idle" /\ inv'[i].pc = "done"
             /\ inv'[i].ops = NoOps
             /\ inv'[i].userId = NULL
             /\ Tables' = Tables]_vars

\* a rejected token answered 401 after an authenticated call, while a profile
\* is searching
UnauthenticatedNoWrite_Witness ==
    /\ inv[1].pc = "done" /\ inv[1].request = "POST token"
    /\ inv[2].pc = "done" /\ inv[2].request = "POST bad token"
    /\ inv[2].resp.code = 401
    /\ \E p \in profiles : is_searching[p]
\* C13 (Scenario E): when the step-1 write fails the invocation answers 500
\* "Failed to update search status" at once: Profiles (the caller's
\* is_searching included) and Matches are unchanged, and it has issued no
\* lookup, no insert and no other write.
ScenarioE_Step1Failure ==
    [][\A i \in Invs :
          (inv'[i].updateError /\ inv'[i] # inv[i])
          => /\ inv[i].pc = "step1" /\ inv'[i].pc = "done"
             /\ inv'[i].resp.code = 500
             /\ inv'[i].resp.body = "Failed to update search status"
             /\ inv'[i].ops = [NoOps EXCEPT !.step1 = 1]
             /\ inv'[i].matchedUser = NULL /\ ~Inserted(i)
             /\ Tables' = Tables]_vars

\* the write failed for a caller whose flag an earlier call had set: it stays set
ScenarioE_Witness ==
    \E i \in Invs :
        /\ inv[i].pc = "done" /\ inv[i].updateError
        /\ inv[i].userId \in profiles
        /\ is_searching[inv[i].userId]
\* the step in which the insert of invocation i, whose caller has a Profile,
\* fails
InsertFails(i) ==
    /\ inv[i].pc = "step5"
    /\ inv'[i].matchError # "none"
    /\ inv[i].userId \in profiles

DependencyFailureAnswer(i) ==
    /\ inv'[i].pc = "done"
    /\ inv'[i].resp.code = 500
    /\ inv'[i].resp.body = "Failed to create match"
    /\ matches' = matches
    /\ ~Inserted(i)

\* C14 as stated: a failed insert (uniqueness conflict included) is answered
\* 500, adds no Match row, and the caller's is_searching is true when the
\* response is returned.
Step5Failure_CallerSearching ==
    [][\A i \in Invs :
          InsertFails(i) =>
              DependencyFailureAnswer(i) /\ is_searching'[inv[i].userId]]_vars

\* C14 amended: the same answer and no Match row; the caller's is_searching is
\* true at the response unless the step-6 write of another invocation that
\* paired the caller has reset it since the caller's step 1.
Step5Failure_SearchingUnlessCleared ==
    [][\A i \in Invs :
          InsertFails(i) =>
              /\ DependencyFailureAnswer(i)
              /\ is_searching'[inv[i].userId] \/ inv[i].cleared]_vars

\* an insert rejected by the uniqueness constraint, the caller still searching
Step5Failure_Witness ==
    \E i \in Invs :
        /\ inv[i].pc = "done" /\ inv[i].matchError = "unique"
        /\ inv[i].resp.code = 500
        /\ is_searching[inv[i].userId]
\* C15: when the insert succeeded and the step-6 write fails, the invocation
\* answers 200 "matched" with the id of the new Match and no error detail, and
\* the Match row is in the table.
Step6Failure_StillMatched ==
    \A i \in Invs :
        inv[i].pc = "done" /\ inv[i].updateUsersError
            => /\ inv[i].resp.code = 200
               /\ inv[i].resp.body = "matched"
               /\ inv[i].resp.details = ""
               /\ inv[i].newMatch # NULL
               /\ inv[i].resp.matchId = inv[i].newMatch
               /\ inv[i].resp.matchedUser = inv[i].matchedUser
               /\ \E m \in matches :
                      /\ m.id = inv[i].newMatch
                      /\ {m.profile1_id, m.profile2_id}
                             = {inv[i].userId, inv[i].matchedUser}

\* a failed step-6 write answered "matched", both flags left set
Step6Failure_Witness ==
    \E i \in Invs :
        /\ inv[i].pc = "done" /\ inv[i].updateUsersError
        /\ inv[i].resp.body = "matched"
        /\ is_searching[inv[i].userId] /\ is_searching[inv[i].matchedUser]

\* C16 as stated: the 500 answer to an unexpected fault carries the generic
\* message only, no text of the fault itself.
InternalError_NoDetail ==
    \A i \in Invs :
        inv[i].pc = "done" /\ inv[i].resp.body = "Internal server error"
            => inv[i].resp.details = ""
ResponseShapes ==
    {<<401, "Unauthorized">>, <<200, "searching">>, <<200, "matched">>,
     <<500, "Failed to update search status">>,
     <<500, "Failed to search for matches">>,
     <<500, "Failed to create match">>,
     <<500, "Internal server error">>}

\* C17: every invocation of the operation (a request other than the preflight)
\* that has arrived ends; when it has ended it has a response that is 401
\* Unauthorized, 500 with an error body, 200 searching or 200 matched; it has
\* none before, and the response never changes afterwards.
OneResponseAlways ==
    /\ \A i \in Invs : Running(i) ~> inv[i].pc = "done"
    /\ [](\A i \in Invs :
            /\ inv[i].pc # "done" => inv[i].resp = NoResponse
            /\ inv[i].pc = "done" /\ inv[i].request # "OPTIONS"
                   => <<inv[i].resp.code, inv[i].resp.body>> \in ResponseShapes)
    /\ [][\A i \in Invs : inv[i].pc = "done" => inv'[i] = inv[i]]_vars

\* all invocations ended, one by a thrown fault and one after a storage failure
OneResponse_Witness ==
    /\ \A i \in Invs : inv[i].pc = "done"
    /\ \E i \in Invs : inv[i].resp.body = "Internal server error"
    /\ \E i \in Invs : inv[i].searchError \/ inv[i].matchError # "none"
\* the storage operations of invocation i so far: one step-1 write when it has
\* ended, one insert that succeeded exactly when it answered "matched", and a
\* step-6 write only after its own insert succeeded
SideEffects(i) ==
    /\ inv[i].pc = "done" => inv[i].ops.step1 = 1
    /\ inv[i].pc = "done" =>
           (inv[i].ops.step5 = 1 /\ Inserted(i) <=> inv[i].resp.body = "matched")
    /\ inv[i].ops.step5 <= 1
    /\ inv[i].ops.step6 <= 1
    /\ inv[i].ops.step6 = 1 => inv[i].ops.step5 = 1 /\ Inserted(i)

\* C18 as stated: every invocation of the operation issues exactly one step-1
\* write, inserts exactly one Match iff it answers "matched", and issues the
\* step-6 write only after its own insert succeeded.
SideEffectCounts ==
    \A i \in Invs :
        inv[i].request \in {"POST no header", "POST bad token", "POST token"}
            => SideEffects(i)

\* C18 amended: the same, of every invocation that passes authentication.
SideEffectCounts_Authenticated ==
    \A i \in Invs : inv[i].request = "POST token" => SideEffects(i)

\* one invocation answered "searching" after a write and a lookup, another
\* answered "matched" after one operation of each step
SideEffectCounts_Witness ==
    \E i, j \in Invs :
        /\ inv[i].pc = "done" /\ inv[i].resp.body = "searching"
        /\ inv[i].ops = [NoOps EXCEPT !.step1 = 1, !.step2 = 1]
        /\ inv[j].pc = "done" /\ inv[j].resp.body = "matched"
        /\ inv[j].ops = [step1 |-> 1, step2 |-> 1, step5 |-> 1, step6 |-> 1]
\* C19 as stated: when an invocation that ran with no other invocation in
\* flight has inserted its Match row, the caller and the candidate are both
\* active.
OnlyActiveMatched ==
    \A i \in Invs :
        inv[i].pc = "step6" /\ inv[i].alone
            => is_active[inv[i].userId] /\ is_active[inv[i].matchedUser]
\* C20: the preflight is answered 200 "ok" in one step that authenticates no
\* one, issues no storage operation and leaves Profiles and Matches as they
\* were; and every response of the handler, on every path, carries the CORS
\* headers.
PreflightAndCors ==
    /\ [](\A i \in Invs :
            inv[i].pc = "done"
                => /\ inv[i].resp.headers = corsHeaders
                   /\ inv[i].request = "OPTIONS"
                          => /\ inv[i].userId = NULL
                             /\ inv[i].ops = NoOps
                             /\ inv[i].resp.code = 200
                             /\ inv[i].resp.body = "ok")
    /\ [][\A i \in Invs :
            (inv'[i].request = "OPTIONS" /\ inv'[i] # inv[i])
                => /\ inv[i].pc = "idle" /\ inv'[i].pc = "done"
                   /\ Tables' = Tables]_vars

\* a preflight answered, next to an invocation answered 401 or 500, both with
\* the headers
PreflightAndCors_Witness ==
    \E i, j \in Invs :
        /\ inv[i].pc = "done" /\ inv[i].request = "OPTIONS"
        /\ inv[i].resp.headers = corsHeaders
        /\ inv[j].pc = "done" /\ inv[j].resp.code \in {401, 500}
        /\ inv[j].resp.headers = corsHeaders
\* a Profile that is searching, active and not u
Qualifies(p, u) == p \in profiles /\ is_searching[p] /\ is_active[p] /\ p # u

\* C21: the candidate an invocation takes from its step-2 read is one Profile
\* that was searching, active and not the caller when the read was made; the
\* read answers "searching" only when no such Profile existed then; and every
\* such Profile is one the read may return.
CandidateLookup ==
    /\ [](\A i \in Invs : \A c \in Users :
            inv[i].pc = "step2" /\ Qualifies(c, inv[i].userId)
                => ENABLED (Next /\ inv'[i].matchedUser = c))
    /\ [][\A i \in Invs :
            inv[i].pc = "step2" /\ inv'[i].pc # "step2"
                => /\ inv'[i].matchedUser # NULL
                       => /\ inv'[i].pc = "step5"
                          /\ Qualifies(inv'[i].matchedUser, inv[i].userId)
                   /\ inv'[i].resp.body = "searching"
                       => \A p \in Users : ~Qualifies(p, inv[i].userId)
                   /\ inv'[i].matchedUser = NULL
                       => inv'[i].pc = "done"
                          /\ inv'[i].resp.body \in {"searching",
                                                    "Failed to search for matches"}]_vars

\* a candidate taken while a Profile of smaller id qualifies as well
CandidateLookup_Witness ==
    \E i \in Invs : \E d \in Users :
        /\ inv[i].pc = "step5"
        /\ d < inv[i].matchedUser
        /\ Qualifies(d, inv[i].userId)
        /\ Qualifies(inv[i].matchedUser, inv[i].userId)
\* C22: within one invocation each storage operation is issued at most once
\* and only after the previous one returned without error, in the order step-1
\* write, step-2 lookup, insert, step-6 write; a failed step-2 lookup is
\* answered 500 with no insert and no step-6 write by that invocation.
StepGating ==
    \A i \in Invs :
        /\ \A k \in DOMAIN NoOps : inv[i].ops[k] <= 1
        /\ inv[i].ops.step2 = 1 => inv[i].ops.step1 = 1 /\ ~inv[i].updateError
        /\ inv[i].ops.step5 = 1 => /\ inv[i].ops.step2 = 1 /\ ~inv[i].searchError
                                   /\ inv[i].matchedUser # NULL
        /\ inv[i].ops.step6 = 1 => /\ inv[i].ops.step5 = 1
                                   /\ inv[i].matchError = "none" /\ Inserted(i)
        /\ inv[i].searchError =>
               /\ inv[i].pc = "done"
               /\ inv[i].resp.code = 500
               /\ inv[i].resp.body = "Failed to search for matches"
               /\ inv[i].ops = [NoOps EXCEPT !.step1 = 1, !.step2 = 1]
               /\ ~Inserted(i)

\* a failed lookup answered, the caller left searching, next to an invocation
\* that went through the four operations
StepGating_Witness ==
    \E i, j \in Invs :
        /\ inv[i].pc = "done" /\ inv[i].searchError
        /\ inv[i].userId \in profiles /\ is_searching[inv[i].userId]
        /\ inv[j].pc = "done" /\ inv[j].ops.step6 = 1
\* C23: every step leaves each Match row as it is and deletes no Profile; the
\* rows it adds, at most one, have a new id and status "matched"; so every
\* Match row has status "matched".
MatchLifecycle ==
    /\ [](\A m \in matches : m.status = "matched")
    /\ [][/\ matches \subseteq matches'
          /\ profiles \subseteq profiles'
          /\ Cardinality(matches' \ matches) <= 1
          /\ \A m \in matches' \ matches :
                /\ m.status = "matched"
                /\ \A n \in matches : n.id # m.id]_vars

\* a second Match row inserted next to the first, whose flags were cleared
MatchLifecycle_Witness ==
    /\ Cardinality(matches) = 2
    /\ \A i \in Invs : inv[i].pc = "done" /\ inv[i].resp.body = "matched"
    /\ \E m, n \in matches : m.id # n.id
\* the Match rows with id k
RowsWithId(k) == {m \in matches : m.id = k}

\* C24: an invocation answered "matched" returns the id of the one row it
\* inserted, whose parties are the caller and the returned matchedUser; no two
\* invocations inserted the same row; and there are as many Match rows as
\* invocations whose insert succeeded.
MatchedResponseRow ==
    /\ \A i \in Invs :
          inv[i].pc = "done" /\ inv[i].resp.body = "matched"
              => /\ Inserted(i)
                 /\ inv[i].resp.matchId = inv[i].newMatch
                 /\ Cardinality(RowsWithId(inv[i].resp.matchId)) = 1
                 /\ \A m \in RowsWithId(inv[i].resp.matchId) :
                        /\ {m.profile1_id, m.profile2_id}
                               = {inv[i].userId, inv[i].resp.matchedUser}
                        /\ inv[i].userId # inv[i].resp.matchedUser
    /\ \A i, j \in Invs :
          i # j /\ Inserted(i) /\ Inserted(j) => inv[i].newMatch # inv[j].newMatch
    /\ Cardinality(matches) = Cardinality({i \in Invs : Inserted(i)})

\* two invocations answered "matched", each with its own row
MatchedResponseRow_Witness ==
    \E i, j \in Invs :
        /\ i # j
        /\ inv[i].pc = "done" /\ inv[i].resp.body = "matched"
        /\ inv[j].pc = "done" /\ inv[j].resp.body = "matched"
        /\ inv[i].resp.matchId # inv[j].resp.matchId
        /\ inv[i].userId # inv[j].userId
\* the step taken is invocation i's step-1 write
WritesStep1(i) == inv[i].pc = "step1" /\ inv'[i].ops.step1 = inv[i].ops.step1 + 1

\* the step taken is invocation i's step-6 write, after its own insert
WritesStep6(i) ==
    /\ inv[i].pc = "step6" /\ Inserted(i)
    /\ inv'[i].ops.step6 = inv[i].ops.step6 + 1

\* C25: a step changes is_searching of a Profile only when it is the step-1
\* write of an invocation by that Profile (setting it), or the step-6 write,
\* after its own insert, of an invocation whose caller or selected candidate
\* the Profile is (clearing it); no step changes is_active.
ProfileFrame ==
    [][/\ is_active' = is_active
       /\ \A p \in profiles :
             is_searching'[p] # is_searching[p]
                 => \E i \in Invs :
                       \/ WritesStep1(i) /\ p = inv[i].userId /\ is_searching'[p]
                       \/ /\ WritesStep6(i)
                          /\ p \in {inv[i].userId, inv[i].matchedUser}
                          /\ ~is_searching'[p]]_vars

\* a pair matched and cleared while a third Profile is still searching
ProfileFrame_Witness ==
    \E i \in Invs : \E p \in profiles :
        /\ inv[i].pc = "done" /\ inv[i].resp.body = "matched"
        /\ ~is_searching[inv[i].userId] /\ ~is_searching[inv[i].matchedUser]
        /\ p \notin {inv[i].userId, inv[i].matchedUser}
        /\ is_searching[p]
\* i and j are the only invocations that issued a storage operation; both are
\* finished without storage failure, by two different active Profiles
TwoSearchers(i, j) ==
    /\ i # j
    /\ \A k \in Invs \ {i, j} : inv[k].ops = NoOps
    /\ inv[i].pc = "done" /\ inv[j].pc = "done"
    /\ inv[i].request = "POST token" /\ inv[j].request = "POST token"
    /\ inv[i].userId # inv[j].userId
    /\ inv[i].userId \in profiles /\ inv[j].userId \in profiles
    /\ is_active[inv[i].userId] /\ is_active[inv[j].userId]
    /\ NoStorageFault(i) /\ NoStorageFault(j)

\* C26: when two active Profiles with no Match between them, no other Profile
\* searching, have each run one invocation to its end without storage failure,
\* the two answers are not both "searching" and the pair has exactly one Match
\* row, however their steps interleaved.
NoLostPairing ==
    \A i, j \in Invs :
        TwoSearchers(i, j)
            => /\ ~(inv[i].resp.body = "searching" /\ inv[j].resp.body = "searching")
               /\ Cardinality(PairRows(inv[i].userId, inv[j].userId)) = 1

\* the two selected each other: one insert accepted, the other rejected
NoLostPairing_Witness ==
    \E i, j \in Invs :
        /\ TwoSearchers(i, j)
        /\ inv[i].resp.body = "matched"
        /\ inv[j].matchError = "unique"
\* record r is of an invocation by an authenticated identity with no Profile
NoProfileCaller(r) == r.userId # NULL /\ r.userId \notin profiles

\* C27: no step of an invocation by an authenticated identity that has no
\* Profile row changes the Profiles (rows, is_active, is_searching) or the
\* Match rows; such an invocation never holds an inserted row, and it answers
\* "searching" or 500.
NoProfileNoEffect ==
    /\ [](\A i \in Invs :
            NoProfileCaller(inv[i])
                => /\ ~Inserted(i)
                   /\ inv[i].ops.step6 = 0
                   /\ \A m \in matches : inv[i].userId
                                             \notin {m.profile1_id, m.profile2_id}
                   /\ inv[i].pc = "done"
                          => /\ inv[i].ops.step1 = 1
                             /\ <<inv[i].resp.code, inv[i].resp.body>>
                                  \in ResponseShapes \ {<<401, "Unauthorized">>,
                                                        <<200, "matched">>,
                                                        <<500, "Internal server error">>})
    /\ [][\A i \in Invs :
            NoProfileCaller(inv'[i]) /\ inv'[i].pc # inv[i].pc
                => Tables' = Tables]_vars

\* the insert of a caller without Profile rejected by the foreign key, the
\* candidate it had selected still searching
NoProfileNoEffect_Witness ==
    \E i \in Invs :
        /\ inv[i].pc = "done" /\ NoProfileCaller(inv[i])
        /\ inv[i].matchError = "foreign_key"
        /\ is_searching[inv[i].matchedUser]
        /\ matches = {}
\* ------------------------------------------------------- useNotifications
NotificationIds == 1..NumNotificationIds

\* a Notification, reduced to the fields the hook's callbacks read
Notification == [id : NotificationIds, read : BOOLEAN]

\* the lists of at most n Notifications
NotificationLists(n) == UNION {[1..k -> Notification] : k \in 0..n}

\* prev.filter(keep)
RECURSIVE Filter(_, _)
Filter(list, drop) ==
    IF list = <<>> THEN <<>>
    ELSE IF Head(list).id = drop THEN Filter(Tail(list), drop)
    ELSE <<Head(list)>> \o Filter(Tail(list), drop)

\* the hook with a list whose unread notifications the counter counts
InitNotifications ==
    /\ ServerInit
    /\ notifications \in NotificationLists(MaxNotifications - 1)
    /\ unreadCount = Cardinality({k \in DOMAIN notifications : ~notifications[k].read})
    /\ session = NULL /\ user = NULL /\ profile = NULL
    /\ calls = [c \in Calls |-> IdleCall]
    /\ messages = <<>>

markAsRead(id) ==
    /\ notifications' = [k \in DOMAIN notifications |->
                           IF notifications[k].id = id
                           THEN [notifications[k] EXCEPT !.read = TRUE]
                           ELSE notifications[k]]
    /\ unreadCount' = Max(0, unreadCount - 1)
    /\ UNCHANGED <<server, session, user, profile, calls, messages>>

markAllAsRead ==
    /\ notifications' = [k \in DOMAIN notifications |->
                           [notifications[k] EXCEPT !.read = TRUE]]
    /\ unreadCount' = 0
    /\ UNCHANGED <<server, session, user, profile, calls, messages>>

deleteNotification(id) ==
    /\ LET found == {k \in DOMAIN notifications : notifications[k].id = id} IN
       unreadCount' =
           IF found # {} /\ ~notifications[CHOOSE k \in found : \A j \in found : k <= j].read
           THEN Max(0, unreadCount - 1)
           ELSE unreadCount
    /\ notifications' = Filter(notifications, id)
    /\ UNCHANGED <<server, session, user, profile, calls, messages>>

addNotification(id, read) ==
    /\ Len(notifications) < MaxNotifications
    /\ unreadCount < MaxUnread
    /\ notifications' = <<[id |-> id, read |-> read]>> \o notifications
    /\ unreadCount' = IF ~read THEN unreadCount + 1 ELSE unreadCount
    /\ UNCHANGED <<server, session, user, profile, calls, messages>>

NextNotifications ==
    \/ \E id \in NotificationIds : markAsRead(id)
    \/ markAllAsRead
    \/ \E id \in NotificationIds : deleteNotification(id)
    \/ \E id \in NotificationIds : \E read \in BOOLEAN : addNotification(id, read)

SpecNotifications == InitNotifications /\ [][NextNotifications]_vars

\* C28 as stated: after any sequence of markAsRead, markAllAsRead,
\* deleteNotification and addNotification from a list the counter counts,
\* unreadCount is not negative and is the number of notifications with
\* read = false.
UnreadCountExact ==
    /\ unreadCount >= 0
    /\ unreadCount = Cardinality({k \in DOMAIN notifications : ~notifications[k].read})
\* ------------------------------------------------------------ AuthProvider
InitAuth == ServerInit /\ BrowserInit

\* updateAuthState(session) up to its first await; s is the identity of
\* session.user, NULL for a null session.  Called by initializeAuth and by the
\* listener on SIGNED_IN, TOKEN_REFRESHED and USER_UPDATED.
updateAuthState(c, s) ==
    /\ calls[c].pc = "idle"
    /\ \A b \in Calls : b < c => calls[b].pc # "idle"
    /\ session' = s
    /\ user' = s
    /\ IF s # NULL
       THEN /\ calls' = [calls EXCEPT ![c] = [pc |-> "fetchProfile", sessionUser |-> s,
                                              userProfile |-> NULL]]
            /\ UNCHANGED profile
       ELSE /\ profile' = NULL
            /\ calls' = [calls EXCEPT ![c].pc = "done"]
    /\ UNCHANGED <<server, notifications, unreadCount, messages>>

\* fetchProfile returns the row, and the call ends with setProfile
fetchProfileFound(c) ==
    /\ calls[c].pc = "fetchProfile"
    /\ profile' = calls[c].sessionUser
    /\ calls' = [calls EXCEPT ![c].pc = "done", ![c].userProfile = calls[c].sessionUser]
    /\ UNCHANGED <<server, notifications, unreadCount, session, user, messages>>

\* fetchProfile returns null (no row, or an error): createProfile is called
fetchProfileNull(c) ==
    /\ calls[c].pc = "fetchProfile"
    /\ calls' = [calls EXCEPT ![c].pc = "createProfile"]
    /\ UNCHANGED <<server, notifications, unreadCount, session, user, profile, messages>>

\* createProfile returns the new row, or null on error; the call ends with
\* setProfile
createProfileReturns(c, created) ==
    /\ calls[c].pc = "createProfile"
    /\ LET userProfile == IF created THEN calls[c].sessionUser ELSE NULL IN
       /\ profile' = userProfile
       /\ calls' = [calls EXCEPT ![c].pc = "done", ![c].userProfile = userProfile]
    /\ UNCHANGED <<server, notifications, unreadCount, session, user, messages>>

\* the listener on SIGNED_OUT
SIGNED_OUT ==
    /\ session' = NULL
    /\ user' = NULL
    /\ profile' = NULL
    /\ UNCHANGED <<server, notifications, unreadCount, calls, messages>>

NextAuth ==
    \/ \E c \in Calls : \E s \in Users \cup {NULL} : updateAuthState(c, s)
    \/ \E c \in Calls : fetchProfileFound(c)
    \/ \E c \in Calls : fetchProfileNull(c)
    \/ \E c \in Calls : \E created \in BOOLEAN : createProfileReturns(c, created)
    \/ SIGNED_OUT

SpecAuth == InitAuth /\ [][NextAuth]_vars

\* C29 as stated: in every reachable state of the AuthProvider, user = null
\* implies profile = null.
NoProfileWithoutUser == user = NULL => profile = NULL
\* ---------------------------------------------------------------- ChatPage
MessageIds == 1..NumMessageIds

\* msg.reactions.userReaction; "null" stands for null and undefined
Reactions == {"up", "down", "null"}

\* the counters count the user's own reaction
Consistent(msg) ==
    /\ msg.userReaction = "up" => msg.upvotes >= 1
    /\ msg.userReaction = "down" => msg.downvotes >= 1

\* a Message, reduced to its id and its reactions
Message == {msg \in [id : MessageIds, upvotes : 0..MaxVotes, downvotes : 0..MaxVotes,
                     userReaction : Reactions] : Consistent(msg)}

\* the chat as loaded: each message's counters count the user's own reaction
InitChat ==
    /\ ServerInit
    /\ notifications = <<>> /\ unreadCount = 0
    /\ session = NULL /\ user = NULL /\ profile = NULL
    /\ calls = [c \in Calls |-> IdleCall]
    /\ messages \in UNION {[1..k -> Message] : k \in 0..MaxMessages}

\* the switch to the other reaction leaving the old vote counted
Reacted_keeps_old_vote(msg, reaction) ==
    IF msg.userReaction = reaction
    THEN [msg EXCEPT !.userReaction = "null",
                     !.upvotes = IF reaction = "up" THEN @ - 1 ELSE @,
                     !.downvotes = IF reaction = "up" THEN @ ELSE @ - 1]
    ELSE IF reaction = "up"
    THEN [msg EXCEPT !.userReaction = "up", !.upvotes = @ + 1]
    ELSE [msg EXCEPT !.userReaction = "down", !.downvotes = @ + 1]

\* the body of the map callback for the message with the given id
Reacted(msg, reaction) ==
    IF msg.userReaction = reaction
    THEN [msg EXCEPT !.userReaction = "null",
                     !.upvotes = IF reaction = "up" THEN @ - 1 ELSE @,
                     !.downvotes = IF reaction = "up" THEN @ ELSE @ - 1]
    ELSE IF reaction = "up"
    THEN [msg EXCEPT !.userReaction = "up",
                     !.upvotes = @ + 1,
                     !.downvotes = IF msg.userReaction = "down" THEN @ - 1 ELSE @]
    ELSE [msg EXCEPT !.userReaction = "down",
                     !.downvotes = @ + 1,
                     !.upvotes = IF msg.userReaction = "up" THEN @ - 1 ELSE @]

handleReaction(messageId, reaction) ==
    /\ messages' = [k \in DOMAIN messages |->
                      IF messages[k].id = messageId
                      THEN Reacted(messages[k], reaction)
                      ELSE messages[k]]
    /\ UNCHANGED <<server, notifications, unreadCount, session, user, profile, calls>>

NextChat ==
    \E messageId \in MessageIds : \E reaction \in {"up", "down"} :
        handleReaction(messageId, reaction)

SpecChat == InitChat /\ [][NextChat]_vars

\* the counters of msg with the user's own reaction taken out
OthersVotes(msg) ==
    <<msg.upvotes - (IF msg.userReaction = "up" THEN 1 ELSE 0),
      msg.downvotes - (IF msg.userReaction = "down" THEN 1 ELSE 0)>>

\* a step changes only messages of one id; a message that goes from one
\* reaction to the other loses one vote of the old kind and gains one of the
\* new; the counters without the user's reaction stay what they were
ReactionStep ==
    /\ Len(messages') = Len(messages)
    /\ \E messageId \in MessageIds :
          \A k \in DOMAIN messages :
              messages[k].id # messageId => messages'[k] = messages[k]
    /\ \A k \in DOMAIN messages :
          /\ messages'[k].id = messages[k].id
          /\ OthersVotes(messages'[k]) = OthersVotes(messages[k])
          /\ {messages[k].userReaction, messages'[k].userReaction} = {"up", "down"}
                 => /\ messages'[k].userReaction = "up"
                        => /\ messages'[k].upvotes = messages[k].upvotes + 1
                           /\ messages'[k].downvotes = messages[k].downvotes - 1
                    /\ messages'[k].userReaction = "down"
                        => /\ messages'[k].downvotes = messages[k].downvotes + 1
                           /\ messages'[k].upvotes = messages[k].upvotes - 1

\* the counters are never below their values without the user's reaction,
\* which are not negative
CountersAboveOthers ==
    \A k \in DOMAIN messages :
        /\ Consistent(messages[k])
        /\ OthersVotes(messages[k])[1] >= 0 /\ OthersVotes(messages[k])[2] >= 0

\* C30 as stated: the same reaction applied twice to any message gives the
\* message back; a switch moves exactly one vote; the counters never go below
\* their values without the user's reaction; only the targeted message changes.
ReactionTwiceRestores ==
    /\ [](/\ CountersAboveOthers
          /\ \A k \in DOMAIN messages : \A reaction \in {"up", "down"} :
                Reacted(Reacted(messages[k], reaction), reaction) = messages[k])
    /\ [][ReactionStep]_vars

\* C30 amended: the same reaction applied twice gives the message back when
\* the message carries that reaction or none; the rest as stated.
ReactionTwiceRestoresUnlessOpposite ==
    /\ [](/\ CountersAboveOthers
          /\ \A k \in DOMAIN messages : \A reaction \in {"up", "down"} :
                messages[k].userReaction \in {reaction, "null"}
                    => Reacted(Reacted(messages[k], reaction), reaction) = messages[k])
    /\ [][ReactionStep]_vars

\* a message switched to "down" above the votes it started with, next to a
\* message of another id without reaction
Reaction_Witness ==
    \E k, j \in DOMAIN messages :
        /\ messages[k].userReaction = "down"
        /\ messages[k].downvotes = MaxVotes + 1
        /\ messages[j].id # messages[k].id
        /\ messages[j].userReaction = "null"
====
